---- MODULE Spec2Model ----
(***************************************************************************)
(* Model of src/main.py: the version loop of main(), the joblib-cached     *)
(* get_functions / get_keywords / get_settings, run_query and its two      *)
(* back ends (local docker container with a bounded retry loop, remote     *)
(* Fiddle service), and the clean-up of the container after each version.  *)
(* The docker daemon, the Fiddle service and the ClickHouse server are the *)
(* environment: every command may succeed or fail.                         *)
(***************************************************************************)
EXTENDS Integers, Sequences, FiniteSets, TLC

\* ------------------------------------------------------------------ bounds
MaxTags == 2        \* longest version list handed in by get_tags()
MaxRuns == 2        \* process runs sharing the on-disk cache and the daemon
MaxRerunTags == 1   \* longest version list of the runs that are repeated
MaxStrays == 1      \* containers left running by an interrupted earlier run

\* --------------------------------------------------------------- constants
MaxAttempts == 60                          \* range(60)
FloorVersion == "21.9"                     \* if version == "21.9": break
ALLOWED_TAGS == {"latest", "head"}         \* the tags that name no release
CACHE_DENY_LIST == {"latest", "head"}
Versions == {"latest", "21.9", "21.8"}     \* version identifiers of the model
Kinds == <<"get_functions", "get_keywords", "get_settings">>
RenderFiles == <<"index.html", "keywords.html", "settings.html">>

\* A value that may be missing is a sequence of length 0 or 1.
None == << >>             \* Python's None
NoEntry == << >>          \* no stored cache entry for a key
NoData == << >>           \* key absent from a dict
Some(x) == <<x>>

ContainerName_untagged(tag) == "clickhouse-function-reference-" \o "latest"
\* CONTAINER_NAME_TEMPLATE.format(tag=tag)
ContainerName(tag) == "clickhouse-function-reference-" \o tag
Names == {ContainerName(v) : v \in Versions}

\* ---------------------------------------------------- text and parsing
\* A TSV text is its sequence of lines, a line its sequence of tab-separated
\* fields; the first line holds the column names (TabSeparatedWithNames).
EmptyText == << >>
Payloads == { << <<"name">>, <<"foo">> >>,
              << <<"name">>, <<"foo">>, <<"bar">> >> }
\* The system tables of a release are fixed; what "latest" and "head" name
\* changes from day to day.
ServerAnswers(tag) ==
    IF tag \in ALLOWED_TAGS THEN Payloads
    ELSE IF tag = "21.8" THEN { << <<"name">>, <<"foo">> >> }
    ELSE { << <<"name">>, <<"foo">>, <<"bar">> >> }

\* csv.DictReader row: column name -> field
DictRow(header, line) ==
    [f \in {header[j] : j \in 1..Len(header)} |->
        line[CHOOSE j \in 1..Len(header) : header[j] = f]]

\* list(csv.DictReader(tsv.splitlines(), delimiter="\t"))
ParseTSV(tsv) ==
    IF Len(tsv) = 0 THEN << >>
    ELSE [i \in 1..(Len(tsv) - 1) |-> DictRow(tsv[1], tsv[i + 1])]

\* stderr / failure text as a sequence of tokens
BenignErr == <<"Code: 60", "DB::Exception", "UNKNOWN_TABLE">>
NotReadyErr == <<"Code: 210", "DB::NetException", "NETWORK_ERROR">>
NoContainerErr == <<"Error response from daemon">>

\* "UNKNOWN_TABLE" in stderr_text
HasUnknownTable(stderr) == \E i \in 1..Len(stderr) : stderr[i] = "UNKNOWN_TABLE"

Accepted_rcOnly(rc, stderr) == rc = 0
Accepted_benignOnly(rc, stderr) == HasUnknownTable(stderr)
\* query_process.returncode == 0 or "UNKNOWN_TABLE" in stderr_text
Accepted(rc, stderr) == rc = 0 \/ HasUnknownTable(stderr)

\* stdout.decode("utf-8").strip() == word
StdoutIs(out, word) == out = << <<word>> >>

EnsureSeesRunning_never(rc, out) == FALSE
\* run_proc.returncode == 0 and run_proc.stdout.decode("utf-8").strip() == "true"
EnsureSeesRunning(rc, out) == rc = 0 /\ StdoutIs(out, "true")

SweepSeesRunning_never(rc, out) == FALSE
SweepSeesRunning_inverted(rc, out) == rc = 0 /\ StdoutIs(out, "false")
\* the same test in the clean-up of main()
SweepSeesRunning(rc, out) == rc = 0 /\ StdoutIs(out, "true")

LoopContinues_offByOne(k) == k <= MaxAttempts
LoopContinues_forever(k) == TRUE
\* for n in range(60)
LoopContinues(k) == k < MaxAttempts

\* ------------------------------------------------------------ cache policy
\* joblib hands the callback the repr() of each argument: 'latest'
Repr(tag) == <<"'", tag, "'">>
RECURSIVE LStrip(_)
LStrip(s) == IF Len(s) > 0 /\ Head(s) = "'" THEN LStrip(Tail(s)) ELSE s
RECURSIVE RStrip(_)
RStrip(s) == IF Len(s) > 0 /\ s[Len(s)] = "'"
             THEN RStrip(SubSeq(s, 1, Len(s) - 1)) ELSE s
\* str.strip("'")
Strip(s) == RStrip(LStrip(s))
\* the joined text of a stripped argument
Joined(s) == IF Len(s) = 0 THEN "" ELSE s[1]

Metadata(tag) == [input_args |-> [tag |-> Repr(tag)]]

should_cache_always(metadata) == TRUE
should_cache_never(metadata) == FALSE
should_cache_inverted(metadata) ==
    Joined(Strip(metadata.input_args.tag)) \in CACHE_DENY_LIST
\* metadata.get("input_args", {}).get("tag", "").strip("'") not in CACHE_DENY_LIST
should_cache(metadata) ==
    Joined(Strip(metadata.input_args.tag)) \notin CACHE_DENY_LIST

\* ------------------------------------------------------------------- state
VARIABLES
    useFiddle,    \* USE_FIDDLE
    left,         \* strays of an interrupted run the loop has not reached
    tags,         \* tags = get_tags()
    runs,         \* number of the current process run
    pc,           \* position of main()
    vi,           \* index of `version` in tags
    kind,         \* index in Kinds of the query being made
    n,            \* loop variable of the retry loop
    result,       \* result of run_query (None or a text)
    found,        \* outcome of the "already running" test of this call
    ret,          \* funcs, keywords, settings of the current version
    info,         \* function_info, keyword_info, setting_info
    rendered,     \* files written by render()
    cache,        \* joblib store: <<function, tag>> -> stored value
    containers,   \* docker daemon: name -> absent | running | stopped
    lastOp,       \* last docker command of the current call or clean-up
    attempts,     \* docker exec commands issued by the current call
    fails,        \* of which failed without the benign signature
    posts,        \* POST requests issued by the current call
    queryOps,     \* docker commands issued by the current call
    hadEntry,     \* a stored entry existed when the current call was made
    how,          \* how the current call was answered: hit | compute
    called,       \* keys a cached call was made for, over all runs
    firstCall,    \* the current call is the first one for its key
    ensured,      \* an earlier call for this version got past provisioning
    started,      \* a detached start was issued for this version
    hits,         \* cache hits among the calls of this version
    sweepErr,     \* the commands of the current clean-up that failed
    visited       \* <<version, function>> of the calls made in this run

vars == <<useFiddle, left, tags, runs, pc, vi, kind, n, result, found, ret, info,
          rendered, cache, containers, lastOp, attempts, fails, posts,
          queryOps, hadEntry, how, called, firstCall, ensured, started, hits,
          sweepErr, visited>>

calls == <<attempts, fails, posts, queryOps, hadEntry, how, firstCall>>
perVersion == <<ensured, started, hits>>

RECURSIVE DistinctSeqs(_)
DistinctSeqs(k) ==
    IF k = 0 THEN {<< >>}
    ELSE LET shorter == DistinctSeqs(k - 1)
         IN  shorter \cup
             {Append(s, v) : s \in {t \in shorter : Len(t) = k - 1},
                             v \in Versions}
TagLists == {s \in DistinctSeqs(MaxTags) :
                \A i, j \in 1..Len(s) : i # j => s[i] # s[j]}

NoOp == [op |-> "none", target |-> "", rc |-> 0, out |-> EmptyText, err |-> << >>]
Op(o, t, rc) == [op |-> o, target |-> t, rc |-> rc, out |-> EmptyText, err |-> << >>]

version == tags[vi]
name == ContainerName(version)
key == <<Kinds[kind], version>>

SweepName_firstVersion(ts, i) == ContainerName(ts[1])
\* CONTAINER_NAME_TEMPLATE.format(tag=version) in the clean-up of main()
SweepName(ts, i) == ContainerName(ts[i])
sweepName == SweepName(tags, vi)
Keys == {<<Kinds[k], v>> : k \in 1..3, v \in Versions}

\* a dict, in insertion order: a sequence of <<key, value>> items
DictKeys(d) == [i \in 1..Len(d) |-> d[i][1]]
\* d[k] = v: a new key is appended, a key already there keeps its place
DictSet(d, k, v) ==
    IF \E i \in 1..Len(d) : d[i][1] = k
    THEN [i \in 1..Len(d) |-> IF d[i][1] = k THEN <<k, v>> ELSE d[i]]
    ELSE Append(d, <<k, v>>)

\* function_info = {}; keyword_info = {}; setting_info = {}
EmptyInfo == [k \in 1..3 |-> << >>]
EmptyRet == [k \in 1..3 |-> NoData]

\* the program's own state when main() is entered
Fresh ==
    /\ useFiddle \in BOOLEAN
    /\ tags \in TagLists
    /\ runs = 1
    /\ pc = "for"
    /\ vi = 1
    /\ kind = 1
    /\ n = 0
    /\ result = None
    /\ found = FALSE
    /\ ret = EmptyRet
    /\ info = EmptyInfo
    /\ rendered = << >>
    /\ cache = [k \in Keys |-> NoEntry]
    /\ lastOp = NoOp
    /\ attempts = 0 /\ fails = 0 /\ posts = 0 /\ queryOps = 0
    /\ hadEntry = FALSE /\ how = "none" /\ called = {} /\ firstCall = FALSE
    /\ ensured = FALSE /\ started = FALSE /\ hits = 0
    /\ sweepErr = {}
    /\ visited = << >>

\* a first run on a host with no container of the program
Init ==
    /\ Fresh
    /\ containers = [c \in Names |-> "absent"]
    /\ left = {}

\* what an interrupted earlier run can have left: up to MaxStrays containers
\* of versions of the list, still running
StrayStates(ts) ==
    {f \in [Names -> {"absent", "running"}] :
        /\ Cardinality({c \in Names : f[c] = "running"}) <= MaxStrays
        /\ \A c \in Names :
               f[c] = "running" => \E i \in 1..Len(ts) : c = ContainerName(ts[i])}

\* a first run on a host where an interrupted run left containers behind
InitStray ==
    /\ Fresh
    /\ containers \in StrayStates(tags)
    /\ left = {c \in Names : containers[c] = "running"}

\* ------------------------------------------------------------ environment
\* what `docker exec ... clickhouse-client --query` can answer
ExecOutcomes(state, tag) ==
    IF state = "running"
    THEN {[rc |-> 0, out |-> p, err |-> << >>] : p \in ServerAnswers(tag)}
         \cup {[rc |-> 60, out |-> EmptyText, err |-> BenignErr],
               [rc |-> 210, out |-> EmptyText, err |-> NotReadyErr]}
    ELSE {[rc |-> 1, out |-> EmptyText, err |-> NoContainerErr]}

\* what `docker inspect -f {{.State.Running}}` can answer: the state of the
\* container, or an error when there is none or the command fails
InspectOutcomes(state) ==
    {[rc |-> 1, out |-> EmptyText]}
    \cup (IF state = "running" THEN {[rc |-> 0, out |-> << <<"true">> >>]}
          ELSE IF state = "stopped" THEN {[rc |-> 0, out |-> << <<"false">> >>]}
          ELSE {})

\* response.json().get("result", {}).get("output")
FiddleOutcomes(tag) == {Some(p) : p \in ServerAnswers(tag)} \cup {None}

\* a container exits by itself
InstanceExits ==
    /\ pc \notin {"done", "crashed"}
    /\ \E c \in Names :
        /\ containers[c] = "running"
        /\ containers' = [containers EXCEPT ![c] = "stopped"]
    /\ UNCHANGED <<useFiddle, left, tags, runs, pc, vi, kind, n, result,
                   found, ret, info, rendered, cache, lastOp, calls, called,
                   perVersion, sweepErr, visited>>

\* ------------------------------------------------------------------ main()
\* the bookkeeping of the call and the clean-up that are over is dropped
Forget ==
    /\ lastOp' = NoOp /\ found' = FALSE /\ sweepErr' = {}
    /\ queryOps' = 0 /\ hadEntry' = FALSE /\ how' = "none" /\ firstCall' = FALSE

\* for version in tags:
ForVersion ==
    /\ pc = "for"
    /\ vi <= Len(tags)
    /\ pc' = "call"
    /\ kind' = 1
    /\ ret' = EmptyRet
    /\ ensured' = FALSE /\ started' = FALSE /\ hits' = 0
    /\ left' = left \ {name}
    /\ Forget
    /\ UNCHANGED <<useFiddle, tags, runs, vi, n, result, info, rendered,
                   cache, containers, attempts, fails, posts, called,
                   visited>>

\* the version loop is exhausted
ForEnd ==
    /\ pc = "for"
    /\ vi > Len(tags)
    /\ pc' = "render"
    /\ Forget
    /\ UNCHANGED <<useFiddle, left, tags, runs, vi, kind, n, result, ret,
                   info, rendered, cache, containers, attempts, fails, posts,
                   called, perVersion, visited>>

\* run_query: the back end a computation starts in
RunQueryEntry(fiddle) == IF fiddle THEN "post" ELSE "inspect"

\* get_functions(version) / get_keywords(version) / get_settings(version):
\* the call of a function wrapped by memory.cache
CachedCall ==
    /\ pc = "call"
    /\ visited' = Append(visited, <<version, Kinds[kind]>>)
    /\ hadEntry' = (cache[key] # NoEntry)
    /\ firstCall' = (key \notin called)
    /\ called' = called \cup {key}
    /\ attempts' = 0 /\ fails' = 0 /\ posts' = 0 /\ queryOps' = 0
    /\ IF cache[key] # NoEntry /\ should_cache(Metadata(version))
       THEN /\ how' = "hit"
            /\ ret' = [ret EXCEPT ![kind] = cache[key]]
            /\ hits' = hits + 1
            /\ pc' = "got"
            /\ cache' = cache
       ELSE /\ how' = "compute"
            /\ pc' = RunQueryEntry(useFiddle)
            \* a stored entry the callback rejects is cleared
            /\ cache' = [cache EXCEPT ![key] = NoEntry]
            /\ UNCHANGED <<ret, hits>>
    /\ lastOp' = NoOp
    /\ UNCHANGED <<useFiddle, left, tags, runs, vi, kind, n, result, found,
                   info, rendered, containers, ensured, started, sweepErr>>

\* ------------------------------------------------ run_query_against_fiddle
FiddlePost ==
    /\ pc = "post"
    /\ posts' = posts + 1
    /\ \E output \in FiddleOutcomes(version) : result' = output
    /\ pc' = "return"
    /\ UNCHANGED <<useFiddle, left, tags, runs, vi, kind, n, found, ret, info,
                   rendered, cache, containers, lastOp, attempts, fails,
                   queryOps, hadEntry, how, called, firstCall, perVersion,
                   sweepErr, visited>>

\* --------------------------------------- run_query_against_version_locally
\* docker inspect -f {{.State.Running}} container_name
EnsureInspect ==
    /\ pc = "inspect"
    /\ \E o \in InspectOutcomes(containers[name]) :
        /\ found' = EnsureSeesRunning(o.rc, o.out)
        /\ lastOp' = [op |-> "inspect", target |-> name, rc |-> o.rc,
                      out |-> o.out, err |-> << >>]
    /\ queryOps' = queryOps + 1
    /\ IF found'
       THEN pc' = "exec" /\ n' = 0 /\ result' = None /\ ensured' = TRUE
       ELSE pc' = "rm" /\ UNCHANGED <<n, result, ensured>>
    /\ UNCHANGED <<useFiddle, left, tags, runs, vi, kind, ret, info, rendered,
                   cache, containers, attempts, fails, posts, hadEntry, how,
                   called, firstCall, started, hits, sweepErr, visited>>

\* docker rm -f container_name
EnsureRemove ==
    /\ pc = "rm"
    /\ \E ok \in BOOLEAN :
        /\ containers' = IF ok THEN [containers EXCEPT ![name] = "absent"]
                         ELSE containers
        /\ lastOp' = Op("rm -f", name, IF ok THEN 0 ELSE 1)
    /\ queryOps' = queryOps + 1
    /\ pc' = "pull"
    /\ UNCHANGED <<useFiddle, left, tags, runs, vi, kind, n, result, found,
                   ret, info, rendered, cache, attempts, fails, posts,
                   hadEntry, how, called, firstCall, perVersion, sweepErr,
                   visited>>

\* docker pull clickhouse/clickhouse-server:{tag}
EnsurePull ==
    /\ pc = "pull"
    /\ \E ok \in BOOLEAN : lastOp' = Op("pull", version, IF ok THEN 0 ELSE 1)
    /\ queryOps' = queryOps + 1
    /\ pc' = "run"
    /\ UNCHANGED <<useFiddle, left, tags, runs, vi, kind, n, result, found,
                   ret, info, rendered, cache, containers, attempts, fails,
                   posts, hadEntry, how, called, firstCall, perVersion,
                   sweepErr, visited>>

\* docker run --name container_name -d clickhouse/clickhouse-server:{tag}
EnsureRun ==
    /\ pc = "run"
    /\ \E after \in {"running", "stopped", "same"} :
        \* the name must be free; a start that fails may leave the created
        \* container behind
        /\ after # "same" => containers[name] = "absent"
        /\ containers' = IF after = "same" THEN containers
                         ELSE [containers EXCEPT ![name] = after]
        /\ lastOp' = Op("run", name, IF after = "running" THEN 0 ELSE 125)
    /\ queryOps' = queryOps + 1
    /\ started' = TRUE
    /\ ensured' = TRUE
    /\ pc' = "exec" /\ n' = 0 /\ result' = None
    /\ UNCHANGED <<useFiddle, left, tags, runs, vi, kind, found, ret, info,
                   rendered, cache, attempts, fails, posts, hadEntry, how,
                   called, firstCall, hits, sweepErr, visited>>

\* one iteration of the retry loop: docker exec -i container_name
\* clickhouse-client --query query
ExecAttempt ==
    /\ pc = "exec"
    /\ LoopContinues(n)
    /\ \E o \in ExecOutcomes(containers[name], version) :
        /\ lastOp' = [op |-> "exec", target |-> name, rc |-> o.rc,
                      out |-> o.out, err |-> o.err]
        /\ fails' = IF o.rc # 0 /\ ~HasUnknownTable(o.err)
                    THEN fails + 1 ELSE fails
        /\ IF Accepted(o.rc, o.err)
           THEN result' = Some(o.out) /\ pc' = "return" /\ n' = n
           ELSE result' = result /\ pc' = "exec" /\ n' = n + 1
    /\ attempts' = attempts + 1
    /\ queryOps' = queryOps + 1
    /\ UNCHANGED <<useFiddle, left, tags, runs, vi, kind, found, ret, info,
                   rendered, cache, containers, posts, hadEntry, how, called,
                   firstCall, perVersion, sweepErr, visited>>

\* the retry loop ran out: result is still None
ExecExhausted ==
    /\ pc = "exec"
    /\ ~LoopContinues(n)
    /\ pc' = "return"
    /\ UNCHANGED <<useFiddle, left, tags, runs, vi, kind, n, result, found,
                   ret, info, rendered, cache, containers, lastOp, calls,
                   called, perVersion, sweepErr, visited>>

\* ------------------------------------ body of the cached function, the store
StoredAfter_always(raised, old, value) == Some(value)
\* memory.cache: the value is written under the key when the wrapped function
\* returns; when it raises, nothing is written
StoredAfter(raised, old, value) == IF raised THEN old ELSE Some(value)

\* tsv.splitlines() on None raises AttributeError, which neither joblib nor
\* main() catches
ParseRaises ==
    /\ pc = "return"
    /\ result = None
    /\ cache' = [cache EXCEPT ![key] = StoredAfter(TRUE, cache[key], << >>)]
    /\ pc' = "crashed"
    /\ UNCHANGED <<useFiddle, left, tags, runs, vi, kind, n, result, found,
                   ret, info, rendered, containers, lastOp, calls, called,
                   perVersion, sweepErr, visited>>

\* return list(reader); joblib stores the value under the key
ParseAndStore ==
    /\ pc = "return"
    /\ result # None
    /\ cache' = [cache EXCEPT
                     ![key] = StoredAfter(FALSE, cache[key], ParseTSV(result[1]))]
    /\ ret' = [ret EXCEPT ![kind] = Some(ParseTSV(result[1]))]
    /\ pc' = "got"
    \* the locals of run_query_against_version_locally are gone
    /\ n' = 0 /\ result' = None /\ found' = FALSE
    /\ attempts' = 0 /\ fails' = 0 /\ posts' = 0
    /\ UNCHANGED <<useFiddle, left, tags, runs, vi, kind, info, rendered,
                   containers, lastOp, queryOps, hadEntry, how, called,
                   firstCall, perVersion, sweepErr, visited>>

\* the next of the three calls of this version
NextCall ==
    /\ pc = "got"
    /\ kind < 3
    /\ kind' = kind + 1
    /\ pc' = "call"
    /\ Forget
    /\ UNCHANGED <<useFiddle, left, tags, runs, vi, n, result, ret, info,
                   rendered, cache, containers, attempts, fails, posts,
                   called, perVersion, visited>>

AfterVersion_always(fiddle) == "sweep_inspect"
\* if not USE_FIDDLE: the clean-up is entered
AfterVersion(fiddle) == IF fiddle THEN "for" ELSE "sweep_inspect"

\* function_info[version] = funcs ...; if version == "21.9": break
Assign ==
    /\ pc = "got"
    /\ kind = 3
    /\ info' = [k \in 1..3 |-> DictSet(info[k], version, ret[k][1])]
    /\ IF version = FloorVersion
       THEN pc' = "render" /\ vi' = vi
       ELSE /\ pc' = AfterVersion(useFiddle)
            /\ vi' = IF pc' = "for" THEN vi + 1 ELSE vi
    /\ Forget
    /\ UNCHANGED <<useFiddle, left, tags, runs, kind, n, result, ret,
                   rendered, cache, containers, attempts, fails, posts,
                   called, perVersion, visited>>

\* docker inspect -f {{.State.Running}} of the version just processed
SweepInspect ==
    /\ pc = "sweep_inspect"
    /\ \E o \in InspectOutcomes(containers[sweepName]) :
        /\ found' = SweepSeesRunning(o.rc, o.out)
        /\ lastOp' = [op |-> "inspect", target |-> sweepName, rc |-> o.rc,
                      out |-> o.out, err |-> << >>]
        /\ sweepErr' = IF o.rc # 0 THEN {"inspect"} ELSE {}
    /\ IF found'
       THEN pc' = "sweep_stop" /\ vi' = vi
       ELSE pc' = "for" /\ vi' = vi + 1
    /\ UNCHANGED <<useFiddle, left, tags, runs, kind, n, result, ret, info,
                   rendered, cache, containers, calls, called, perVersion,
                   visited>>

\* docker stop container_name
SweepStop ==
    /\ pc = "sweep_stop"
    /\ \E ok \in BOOLEAN :
        /\ containers' = IF ok /\ containers[sweepName] = "running"
                         THEN [containers EXCEPT ![sweepName] = "stopped"]
                         ELSE containers
        /\ lastOp' = Op("stop", sweepName, IF ok THEN 0 ELSE 1)
        /\ sweepErr' = IF ok THEN sweepErr ELSE sweepErr \cup {"stop"}
    /\ pc' = "sweep_rm"
    /\ UNCHANGED <<useFiddle, left, tags, runs, vi, kind, n, result, found,
                   ret, info, rendered, cache, calls, called, perVersion,
                   visited>>

\* docker rm container_name
SweepRemove ==
    /\ pc = "sweep_rm"
    /\ \E ok \in BOOLEAN :
        \* without -f a running container is not removed
        /\ ok => containers[sweepName] = "stopped"
        /\ containers' = IF ok THEN [containers EXCEPT ![sweepName] = "absent"]
                         ELSE containers
        /\ lastOp' = Op("rm", sweepName, IF ok THEN 0 ELSE 1)
        /\ sweepErr' = IF ok THEN sweepErr ELSE sweepErr \cup {"rm"}
    /\ pc' = "for"
    /\ vi' = vi + 1
    /\ UNCHANGED <<useFiddle, left, tags, runs, kind, n, result, found, ret,
                   info, rendered, cache, calls, called, perVersion, visited>>

\* the feature names of the modelled payloads, as sorted() orders them
FeatureOrder == <<"bar", "foo">>

HasName_firstRecord(funcs, feature) ==
    Len(funcs) > 0 /\ "name" \in DOMAIN funcs[1] /\ funcs[1].name = feature
\* any(f.get("name") == feature for f in funcs)
HasName(funcs, feature) ==
    \E i \in 1..Len(funcs) :
        "name" \in DOMAIN funcs[i] /\ funcs[i].name = feature

\* sorted(list({func["name"] for funcs in version_info.values()
\*              for func in funcs if "name" in func}))
AllFeatures(version_info) ==
    SelectSeq(FeatureOrder,
              LAMBDA f : \E i \in 1..Len(version_info) :
                             HasName(version_info[i][2], f))

\* [tag for tag, funcs in version_info.items()
\*  if any(f.get("name") == feature for f in funcs)]
VersionsWith(version_info, feature) ==
    DictKeys(SelectSeq(version_info, LAMBDA it : HasName(it[2], feature)))

\* feature_to_versions = {feature: [...] for feature in all_features}
FeatureToVersions(version_info) ==
    LET all_features == AllFeatures(version_info)
    IN  [i \in 1..Len(all_features) |->
            <<all_features[i], VersionsWith(version_info, all_features[i])>>]

\* render(function_info, ...); render(keyword_info, ...); render(setting_info, ...)
Render ==
    /\ pc = "render"
    /\ rendered' = Append(rendered,
                          [filename |-> RenderFiles[Len(rendered) + 1],
                           feature_to_versions |->
                               FeatureToVersions(info[Len(rendered) + 1])])
    /\ pc' = IF Len(rendered') = 3 THEN "done" ELSE "render"
    /\ UNCHANGED <<useFiddle, left, tags, runs, vi, kind, n, result, found,
                   ret, info, cache, containers, lastOp, calls, called,
                   perVersion, sweepErr, visited>>

\* the program is run again and get_tags() answers as before: the cache
\* directory and the daemon's containers are what the earlier run left
NewRun ==
    /\ pc \in {"done", "crashed"}
    /\ runs < MaxRuns
    /\ runs' = runs + 1
    /\ tags' = tags
    /\ pc' = "for" /\ vi' = 1 /\ kind' = 1 /\ n' = 0
    /\ result' = None /\ found' = FALSE
    /\ ret' = EmptyRet /\ info' = EmptyInfo /\ rendered' = << >>
    /\ lastOp' = NoOp
    /\ attempts' = 0 /\ fails' = 0 /\ posts' = 0 /\ queryOps' = 0
    /\ hadEntry' = FALSE /\ how' = "none" /\ firstCall' = FALSE
    /\ ensured' = FALSE /\ started' = FALSE /\ hits' = 0
    /\ sweepErr' = {}
    /\ visited' = << >>
    /\ UNCHANGED <<useFiddle, left, cache, containers, called>>

\* one run of the program
Step ==
    \/ ForVersion \/ ForEnd \/ CachedCall \/ FiddlePost
    \/ EnsureInspect \/ EnsureRemove \/ EnsurePull \/ EnsureRun
    \/ ExecAttempt \/ ExecExhausted \/ ParseRaises \/ ParseAndStore
    \/ NextCall \/ Assign \/ SweepInspect \/ SweepStop \/ SweepRemove
    \/ Render \/ InstanceExits

Next == Step \/ NewRun

\* one run over a version list of up to MaxTags versions
Spec == Init /\ [][Step]_vars

\* up to MaxRuns runs over a version list of up to MaxRerunTags versions
InitRerun == Init /\ Len(tags) <= MaxRerunTags
SpecRerun == InitRerun /\ [][Next]_vars

\* one run that starts among the containers an interrupted run left
SpecStray == InitStray /\ [][Step]_vars

\* one run in which every command returns and the program goes on: main()
\* is sequential and each subprocess.run / requests.post blocks until done
\* (lists of up to MaxTags releases, or of one alias alone)
InitFair ==
    /\ Init
    /\ Len(tags) > 1 => \A i \in 1..Len(tags) : tags[i] \notin ALLOWED_TAGS
SpecFair == InitFair /\ [][Step]_vars /\ WF_vars(Step)

TypeOK ==
    /\ pc \in {"for", "call", "post", "inspect", "rm", "pull", "run", "exec",
               "return", "got", "sweep_inspect", "sweep_stop", "sweep_rm",
               "render", "done", "crashed"}
    /\ n \in 0..MaxAttempts
    /\ \A c \in Names : containers[c] \in {"absent", "running", "stopped"}

\* ------------------------------------------------------------- properties
ProvisionPcs == {"rm", "pull", "run"}
DockerPcs == {"inspect", "rm", "pull", "run", "exec",
              "sweep_inspect", "sweep_stop", "sweep_rm"}
Finished == pc \in {"done", "crashed"}

\* the calls a complete run makes: the three functions for every version up
\* to and including the floor version
RECURSIVE ExpectedCalls(_)
ExpectedCalls(ts) ==
    IF Len(ts) = 0 THEN << >>
    ELSE <<<<ts[1], Kinds[1]>>, <<ts[1], Kinds[2]>>, <<ts[1], Kinds[3]>>>>
         \o (IF ts[1] = FloorVersion THEN << >> ELSE ExpectedCalls(Tail(ts)))

\* C1: a query that ends in failure after its 60 attempts never stops the
\* run: whenever a run in local mode has ended, every version up to the floor
\* version has had its three calls and the three render steps have run.
C1_FailureNeverStopsTheRun ==
    (~useFiddle /\ Finished)
        => (Len(rendered) = 3 /\ Len(visited) = Len(ExpectedCalls(tags)))

\* C2: a call whose every attempt fails without the benign signature makes
\* exactly 60 attempts and returns None; no call ever makes a 61st attempt.
C2_SixtyAttemptsThenFailure ==
    /\ attempts <= MaxAttempts
    /\ (pc = "return" /\ ~useFiddle /\ fails = attempts)
          => (attempts = MaxAttempts /\ result = None)
    /\ (pc = "return" /\ ~useFiddle /\ result = None) => fails = MaxAttempts

C2_Witness ==
    pc = "return" /\ ~useFiddle /\ fails = MaxAttempts /\ result = None

\* C3: when an attempt succeeds after N < 60 failed ones, the loop is left at
\* once, the result is the output of that attempt and N + 1 attempts were made.
C3_SuccessAfterNFailures ==
    (pc \in {"exec", "return"} /\ lastOp.op = "exec" /\ lastOp.rc = 0)
        => /\ pc = "return"
           /\ result = Some(lastOp.out)
           /\ fails < MaxAttempts
           /\ attempts = fails + 1

C3_Witness ==
    /\ pc = "return" /\ lastOp.op = "exec" /\ lastOp.rc = 0
    /\ fails = MaxAttempts - 1
    /\ result = Some(lastOp.out)

\* C4: an attempt that fails with UNKNOWN_TABLE in its error text is accepted
\* on the attempt it occurs, for each of the three queries: the loop is left,
\* the output of that attempt is the result and no retry follows.
C4_BenignFailureAccepted ==
    (pc \in {"exec", "return"} /\ lastOp.op = "exec" /\ lastOp.rc # 0
        /\ HasUnknownTable(lastOp.err))
        => /\ pc = "return"
           /\ result = Some(lastOp.out)
           /\ attempts = fails + 1

C4_Witness ==
    /\ pc = "return" /\ kind = 3 /\ attempts = 1
    /\ lastOp.op = "exec" /\ lastOp.rc # 0 /\ HasUnknownTable(lastOp.err)
    /\ result = Some(EmptyText)

\* C5 as stated: for a version outside the deny-list the computation is
\* invoked only by the first call for its key.
C5_ComputeOnlyOnFirstCall ==
    (how = "compute" /\ version \notin CACHE_DENY_LIST) => firstCall

\* C5 as amended: a call for a version of the deny-list always invokes the
\* computation and overwrites the stored entry; a call for any other version
\* invokes it only while no entry is stored (the first call, and again after a
\* call whose computation failed), and otherwise returns the stored entry.
C5_CachePolicy ==
    /\ how = "hit" =>
          /\ version \notin CACHE_DENY_LIST
          /\ hadEntry
          /\ pc = "got"
          /\ ret[kind] = cache[key]
    /\ (how = "compute" /\ version \notin CACHE_DENY_LIST) => ~hadEntry
    /\ (how = "compute" /\ pc = "got")
          => (cache[key] # NoEntry /\ cache[key] = ret[kind])
    /\ (how = "compute" /\ pc # "got") => cache[key] = NoEntry

C5_Witness ==
    /\ runs = 2 /\ pc = "got" /\ how = "compute"
    /\ version \in CACHE_DENY_LIST /\ hadEntry /\ ~firstCall

\* C6 as stated: once a call for the version got past provisioning, no later
\* call for it force-removes, pulls or starts again.
C6_NoSecondProvisioning == pc \in ProvisionPcs => ~ensured

\* C6 as amended: a later call for the version addresses the same name and
\* provisions nothing when its inspection reports the instance running; only
\* when the instance is not reported running does it provision again.
C6_ReuseWhenReportedRunning ==
    /\ (ensured /\ pc \in {"rm", "exec"} /\ lastOp.op = "inspect"
            /\ lastOp.rc = 0 /\ StdoutIs(lastOp.out, "true"))
          => (pc = "exec" /\ found /\ lastOp.target = name)
    /\ (ensured /\ pc \in ProvisionPcs) => ~found

C6_Witness ==
    /\ ensured /\ kind = 2 /\ pc = "exec" /\ found
    /\ lastOp.op = "inspect" /\ started /\ queryOps = 1

\* C7 as stated: when the clean-up of a version is over, its instance is not
\* running.
C7_NotRunningAfterReclaim ==
    (pc = "for" /\ lastOp.op \in {"inspect", "rm"})
        => containers[lastOp.target] # "running"

\* C7 as amended: when the clean-up of a version is over, its instance is not
\* running unless the inspect or the stop command of the clean-up failed.
C7_NotRunningUnlessStepFailed ==
    (pc = "for" /\ lastOp.op \in {"inspect", "rm"}
        /\ containers[lastOp.target] = "running")
        => sweepErr \cap {"inspect", "stop"} # {}

C7_Witness ==
    /\ pc = "for" /\ lastOp.op = "rm" /\ started
    /\ "rm" \in sweepErr /\ "stop" \notin sweepErr
    /\ containers[lastOp.target] = "stopped"

\* C8: in remote mode a query is one POST and no docker command is ever
\* issued, neither for provisioning nor for the clean-up.
C8_RemoteMode ==
    useFiddle =>
        /\ posts <= 1
        /\ pc = "return" => posts = 1
        /\ pc = "post" => posts = 0
        /\ attempts = 0 /\ queryOps = 0 /\ lastOp = NoOp
        /\ pc \notin DockerPcs
        /\ \A c \in Names : containers[c] = "absent"

C8_Witness == useFiddle /\ pc = "done" /\ Len(visited) = 6

\* C9: the calls of a run are those of the versions in the order handed in,
\* each with functions, keywords, settings, up to and including the floor
\* version and none after it.
C9_AllVersionsInOrder ==
    /\ \A i \in 1..Len(visited) :
          i <= Len(ExpectedCalls(tags)) /\ visited[i] = ExpectedCalls(tags)[i]
    /\ Finished => visited = ExpectedCalls(tags)

\* The order itself holds of every run: the calls made are always a prefix of
\* the expected ones, and all of them once the version loop has been left.
OrderOfCallsMade ==
    /\ \A i \in 1..Len(visited) :
          i <= Len(ExpectedCalls(tags)) /\ visited[i] = ExpectedCalls(tags)[i]
    /\ pc \in {"render", "done"} => visited = ExpectedCalls(tags)
    /\ pc = "crashed" => result = None

\* C10: a call that finds a stored entry for a version outside the deny-list
\* issues no docker command, and a version whose three calls are all answered
\* from the cache never has a detached start issued.
C10_HitSkipsDocker ==
    /\ (hadEntry /\ version \notin CACHE_DENY_LIST)
          => (queryOps = 0 /\ lastOp = NoOp /\ pc \notin DockerPcs /\ pc = "got")
    /\ hits = 3 => ~started

C10_Witness ==
    /\ ~useFiddle /\ runs = 2 /\ pc = "got" /\ kind = 3 /\ hits = 3
    /\ hadEntry /\ queryOps = 0

\* where version v stands in the list of versions of this run (0: nowhere)
PositionOf(v) ==
    IF \E i \in 1..Len(tags) : tags[i] = v
    THEN CHOOSE i \in 1..Len(tags) : tags[i] = v
    ELSE 0

\* the result stored for version v in dict d has a record named f
RecordNamed(d, v, f) ==
    \E m \in 1..Len(d) :
        /\ d[m][1] = v
        /\ \E r \in 1..Len(d[m][2]) : d[m][2][r].name = f

\* C11: the feature-to-versions index that render() builds maps each feature
\* name to exactly the versions whose result has a record with that name,
\* every such version once and in the order the versions were processed, and
\* it has an entry for every name that occurs and for no other name.
C11_FeatureToVersions ==
    \A k \in 1..Len(rendered) :
        LET idx == rendered[k].feature_to_versions
            d == info[k]
        IN  /\ \A j \in 1..Len(idx) :
                   /\ \E v \in Versions : RecordNamed(d, v, idx[j][1])
                   /\ \A v \in Versions :
                          (\E a \in 1..Len(idx[j][2]) : idx[j][2][a] = v)
                              <=> RecordNamed(d, v, idx[j][1])
                   /\ \A a, b \in 1..Len(idx[j][2]) :
                          a < b => /\ PositionOf(idx[j][2][a]) > 0
                                   /\ PositionOf(idx[j][2][a])
                                          < PositionOf(idx[j][2][b])
                   /\ \A j2 \in 1..Len(idx) : idx[j2][1] = idx[j][1] => j2 = j
            /\ \A v \in Versions : \A f \in {"foo", "bar", "name"} :
                   RecordNamed(d, v, f) => \E j \in 1..Len(idx) : idx[j][1] = f

C11_Witness ==
    /\ pc = "done"
    /\ tags = <<"21.8", "21.9">>
    /\ rendered[1].filename = "index.html"
    /\ rendered[1].feature_to_versions
           = << <<"bar", <<"21.9">> >>, <<"foo", <<"21.8", "21.9">> >> >>

\* C12: the reclaim step runs after the three queries of every version that
\* is processed in local mode, the floor version 21.9 included, so once the
\* version loop has been left through the floor version, the instance of that
\* version is no longer running.
C12_FloorVersionReclaimed ==
    (~useFiddle /\ pc \in {"render", "done"} /\ vi <= Len(tags))
        => containers[name] # "running"

\* C13: when the detached start of the instance of a version fails, the
\* run goes directly to the reclaim step of that version: the program is not
\* in the retry loop, about to submit a query attempt to that instance.
C13_FailedStartGoesToReclaim ==
    (lastOp.op = "run" /\ lastOp.rc # 0) => pc = "sweep_inspect"

\* C14 as stated: when a clean-up whose commands all succeeded is over and
\* the loop is about to take the next version, no instance of any version of
\* the model is running, a stray left by an interrupted run included.
C14_NothingRunningBeforeNextVersion ==
    (~useFiddle /\ pc = "for" /\ lastOp.op \in {"inspect", "rm"}
                /\ sweepErr = {})
        => \A c \in Names : containers[c] # "running"

\* C14, amended: the clean-up deals with one name only, that of the version
\* just processed: every command of it targets that name, and when none of
\* them failed that instance is not running before the next version is
\* taken; a stray instance of a version the loop has not reached yet is
\* neither stopped nor removed, it is still there.
C14_SweepOnlyOwnInstance ==
    /\ (~useFiddle /\ pc = "for" /\ lastOp.op \in {"inspect", "rm"})
           => /\ lastOp.target = ContainerName(tags[vi - 1])
              /\ sweepErr = {} => containers[lastOp.target] # "running"
    /\ (pc \in {"sweep_stop", "sweep_rm"}) => lastOp.target = name
    /\ \A c \in left : containers[c] # "absent"

C14_Witness ==
    /\ ~useFiddle /\ pc = "for" /\ vi = 2 /\ Len(tags) = 2
    /\ lastOp.op = "rm" /\ lastOp.rc = 0 /\ sweepErr = {}
    /\ containers[ContainerName(tags[1])] = "absent"
    /\ ContainerName(tags[2]) \in left
    /\ containers[ContainerName(tags[2])] = "running"

\* the containers that exist, running or stopped
Existing == {c \in Names : containers[c] # "absent"}

C16_StartOnlyAfterInspectAndRemove ==
    /\ pc = "rm"
           => /\ lastOp.op = "inspect" /\ lastOp.target = name
              /\ ~(lastOp.rc = 0 /\ StdoutIs(lastOp.out, "true"))
              /\ queryOps = 1
    /\ lastOp.op = "rm -f"
           => pc = "pull" /\ lastOp.target = name /\ queryOps = 2 /\ ~found
    /\ lastOp.op = "pull"
           => pc = "run" /\ lastOp.target = version /\ queryOps = 3 /\ ~found
    /\ lastOp.op = "run"
           => pc = "exec" /\ lastOp.target = name /\ queryOps = 4 /\ ~found
    /\ pc = "run" => lastOp.op = "pull"
    /\ pc = "pull" => lastOp.op = "rm -f"

\* a force-remove has failed, the container is still there, and the call
\* goes on to the pull
C16_Witness ==
    /\ pc = "pull" /\ lastOp.op = "rm -f" /\ lastOp.rc # 0
    /\ containers[name] = "stopped"

\* C17: a cache entry is created only by a computation that completed: a
\* call that computed and returned in local mode had its last query attempt
\* accepted and stored the parse of that output; when the computation fails
\* (the query function returned None and the parse raised) the run is
\* aborted by the failure, the key that had no entry still has none, and a
\* call that finds no entry for its key, in this run or the next, computes.
C17_EntryOnlyFromCompletedCompute ==
    /\ pc = "crashed" => how = "compute" /\ result = None
    /\ (pc = "crashed" /\ ~hadEntry) => cache[key] = NoEntry
    /\ (pc = "got" /\ how = "compute" /\ ~useFiddle)
           => /\ lastOp.op = "exec"
              /\ lastOp.rc = 0 \/ HasUnknownTable(lastOp.err)
              /\ cache[key] = Some(ParseTSV(lastOp.out))
    /\ (how # "none" /\ ~hadEntry) => how = "compute"

\* the run after a failed computation for a release: the key was called
\* before, has no entry, and is computed again
C17_Witness ==
    /\ runs = 2 /\ ~useFiddle /\ pc = "inspect"
    /\ version \notin CACHE_DENY_LIST
    /\ ~firstCall /\ ~hadEntry /\ how = "compute"

\* the version whose calls or clean-up issued the last command: after a
\* clean-up the loop index is already that of the next version
Processed == IF pc = "for" THEN tags[vi - 1] ELSE tags[vi]

\* C18: every docker command issued while version v is processed targets
\* the container name made of the fixed prefix and v, the pull targets the
\* image tag v, and the containers under other names are left as they
\* are: a container of a version not reached yet exists if and only if an
\* interrupted run left it.
C18_OnlyOwnNameTargeted ==
    /\ lastOp.op \in {"inspect", "rm -f", "run", "exec", "stop", "rm"}
           => lastOp.target = "clickhouse-function-reference-" \o Processed
    /\ lastOp.op = "pull" => lastOp.target = Processed
    /\ \A v \in Versions :
           (\A i \in 1..Len(tags) : tags[i] = v => i > vi)
               => (containers[ContainerName(v)] # "absent"
                       <=> ContainerName(v) \in left)

\* a command of the clean-up of one version was issued while the container
\* of another version, left by an interrupted run, keeps running
C18_Witness ==
    /\ pc = "sweep_rm" /\ lastOp.op = "stop" /\ lastOp.rc = 0
    /\ lastOp.target = "clickhouse-function-reference-" \o tags[vi]
    /\ containers[lastOp.target] = "stopped"
    /\ \E c \in left : c # lastOp.target /\ containers[c] = "running"

\* C19: a run terminates whatever the driver answers: a call is made at most
\* once for each of the three functions of each version (no retry at the
\* level of the version loop), a call makes at most 60 query attempts, and
\* the run eventually ends, by rendering the pages or by the failure of a
\* call.
C19_RunTerminates ==
    /\ [](/\ attempts <= MaxAttempts
          /\ Len(visited) <= 3 * Len(tags)
          /\ \A i, j \in 1..Len(visited) : visited[i] = visited[j] => i = j)
    /\ <>Finished

\* a run over a full list has ended after a version whose clean-up ran
C19_Witness ==
    /\ ~useFiddle /\ pc = "done" /\ Len(tags) = MaxTags
    /\ Len(visited) = 3 * Len(tags)

\* C20: a call whose query was accepted through the benign failure stores
\* the empty result as the entry of its key; an entry stored for a version
\* outside the deny-list is never cleared or replaced afterwards, and a
\* later call for that key, in this run or a later one, is a hit that
\* returns the stored value without issuing a command to the instance.
C20_BenignEmptyResultKept ==
    /\ [](/\ (pc = "got" /\ how = "compute" /\ lastOp.op = "exec"
                         /\ lastOp.rc # 0)
               => /\ HasUnknownTable(lastOp.err)
                  /\ cache[key] = Some(<< >>)
                  /\ ret[kind] = Some(<< >>)
          /\ (pc = "got" /\ hadEntry /\ version \notin CACHE_DENY_LIST)
               => /\ how = "hit"
                  /\ ret[kind] = cache[key]
                  /\ queryOps = 0 /\ attempts = 0)
    /\ [][\A k \in Keys :
             (k[2] \notin CACHE_DENY_LIST /\ cache[k] # NoEntry)
                 => cache'[k] = cache[k]]_vars

\* the second run gets the empty result of a release from the cache
C20_Witness ==
    /\ runs = 2 /\ ~useFiddle /\ pc = "got" /\ how = "hit"
    /\ version \notin CACHE_DENY_LIST
    /\ cache[key] = Some(<< >>) /\ ret[kind] = Some(<< >>)
    /\ queryOps = 0
====
